---- MODULE Spec2Model ----
(***************************************************************************)
(* Contact search cascade of the Planfix tool server                       *)
(* (src/tools/planfix_search_contact.ts).                                  *)
(*                                                                         *)
(* Strings are sequences of one-character strings.  A value that is        *)
(* optional in the code (T | undefined, number | null) is a sequence of    *)
(* length 0 (absent) or 1 (present); string inputs and the telegram of a   *)
(* result are kept as the string itself, the empty string and undefined    *)
(* both being falsy wherever the code reads them.                          *)
(***************************************************************************)
EXTENDS Integers, Sequences, FiniteSets, TLC

VARIABLES
    args,               \* the input object of the invocation
    PLANFIX_FIELD_IDS,  \* configuration: telegram / telegramCustom field ids
    extenderOut,        \* the filters the custom filter extender appends
    phone,              \* let { phone } = args, after sanitation
    filters,            \* the filters record built from the input
    customFilters,      \* the list handed to the extender
    contactId,          \* number | null
    result,             \* the last searchWithFilter result | undefined
    cfIndex,            \* position of the for..of loop over customFilters
    pc,                 \* position in planfixSearchContact
    outcome,            \* how the invocation ended: "pending", "returned", "thrown"
    ret,                \* the returned result object, once returned
    calls,              \* history: the remote calls issued, in order
    last,               \* history: the latest remote call and its response
    anyThrew,           \* history: some call so far threw
    allThrew,           \* history: every call so far threw
    accepted            \* history: index in calls of the call that set a truthy contactId

vars == <<args, PLANFIX_FIELD_IDS, extenderOut, phone, filters, customFilters,
          contactId, result, cfIndex, pc, outcome, ret,
          calls, last, anyThrew, allThrew, accepted>>

-----------------------------------------------------------------------------
(* Bounds and program constants *)

MaxCustomFilters == 2

MinPhoneLen == 5

TypeByName == 4001

TypeByPhone == 4003

TypeByEmail == 4026

TypeTelegramCustom == 4101

TypeTelegram == 4226

-----------------------------------------------------------------------------
(* Strings *)

Digits == {"0", "1", "2", "3", "4", "5", "6", "7", "8", "9"}

WhiteSpace == {" ", "\t"}

\* the character class [+\d\s\-()]
PhoneClass == Digits \cup WhiteSpace \cup {"+", "-", "(", ")"}

LowerChar(c) ==
    CASE c = "A" -> "a"
      [] c = "B" -> "b"
      [] c = "S" -> "s"
      [] c = "U" -> "u"
      [] OTHER -> c

\* String.prototype.toLowerCase
toLowerCase(s) == [i \in 1..Len(s) |-> LowerChar(s[i])]

\* String.prototype.startsWith("@")
startsWithAt(s) == Len(s) > 0 /\ s[1] = "@"

\* s.replace(/^@/, ""): one leading @ is removed
replaceLeadingAt(s) == IF startsWithAt(s) THEN Tail(s) ELSE s

\* String.prototype.trim
RECURSIVE trimStart(_)
trimStart(s) ==
    IF Len(s) > 0 /\ s[1] \in WhiteSpace THEN trimStart(Tail(s)) ELSE s

RECURSIVE trimEnd(_)
trimEnd(s) ==
    IF Len(s) > 0 /\ s[Len(s)] \in WhiteSpace
    THEN trimEnd(SubSeq(s, 1, Len(s) - 1)) ELSE s

trim(s) == trimEnd(trimStart(s))

\* String.prototype.includes(" ")
includesSpace(s) == \E i \in 1..Len(s) : s[i] = " "

\* /^[+\d\s\-()]{5,}$/.test(p)
phoneRegexTest(p) ==
    /\ Len(p) >= MinPhoneLen
    /\ \A i \in 1..Len(p) : p[i] \in PhoneClass

UrlPrefix == <<"h", "t", "t", "p", "s", ":", "/", "/", "t", ".", "m", "e", "/">>

Absent == <<>>

Some(v) == <<v>>

\* JavaScript truthiness of contactId: null and 0 are falsy
Truthy(cid) == cid # Absent /\ cid[1] # 0

-----------------------------------------------------------------------------
(* Pure parts of planfixSearchContact *)

\* sanitation that only looks at the leading @
sanitizePhone_AtOnly(p) ==
    IF p # <<>> /\ startsWithAt(p) THEN <<>> ELSE p

\* if (phone && (phone.startsWith("@") || !/^[+\d\s\-()]{5,}$/.test(phone))) phone = ""
sanitizePhone(p) ==
    IF p # <<>> /\ (startsWithAt(p) \/ ~phoneRegexTest(p)) THEN <<>> ELSE p

Filter(type, field, value) ==
    [type |-> type, field |-> field, operator |-> "equal", value |-> value]

\* the telegram filter on the configured field, undefined when none is configured
telegramFilter(cfg, t, value) ==
    IF t = <<>> THEN Absent
    ELSE IF cfg.telegramCustom # 0
         THEN Some(Filter(TypeTelegramCustom, Some(cfg.telegramCustom), value))
    ELSE IF cfg.telegram # 0
         THEN Some(Filter(TypeTelegram, Absent, value))
    ELSE Absent

byTelegramValue(t) == toLowerCase(replaceLeadingAt(t))

byTelegramWithAtValue(t) == <<"@">> \o toLowerCase(replaceLeadingAt(t))

byTelegramOriginalCaseValue(t) == replaceLeadingAt(t)

byTelegramOriginalCaseWithAtValue(t) == IF startsWithAt(t) THEN t ELSE <<"@">> \o t

\* the URL form built from the lowercased handle
byTelegramUrlValue_Lowercased(t) == UrlPrefix \o toLowerCase(replaceLeadingAt(t))

byTelegramUrlValue(t) == UrlPrefix \o replaceLeadingAt(t)

buildFilters(a, p, cfg) ==
    [ byName |-> Some(Filter(TypeByName, Absent, a.name)),
      byNameTranslated |-> Some(Filter(TypeByName, Absent, a.nameTranslated)),
      byPhone |-> Some(Filter(TypeByPhone, Absent, p)),
      byEmail |-> Some(Filter(TypeByEmail, Absent, a.email)),
      byTelegram |-> telegramFilter(cfg, a.telegram, byTelegramValue(a.telegram)),
      byTelegramWithAt |->
          telegramFilter(cfg, a.telegram, byTelegramWithAtValue(a.telegram)),
      byTelegramOriginalCase |->
          telegramFilter(cfg, a.telegram, byTelegramOriginalCaseValue(a.telegram)),
      byTelegramOriginalCaseWithAt |->
          telegramFilter(cfg, a.telegram, byTelegramOriginalCaseWithAtValue(a.telegram)),
      byTelegramUrl |->
          telegramFilter(cfg, a.telegram, byTelegramUrlValue(a.telegram)) ]

\* extractTelegramFromContact: the configured custom field wins over the
\* built-in one; "" when the contact has none
extractTelegramFromContact(contact, cfg) ==
    IF cfg.telegramCustom # 0
    THEN LET hits == {i \in 1..Len(contact.customFieldData) :
                         contact.customFieldData[i].field = cfg.telegramCustom}
         IN IF hits = {} THEN <<>>
            ELSE LET f == contact.customFieldData[
                              CHOOSE i \in hits : \A j \in hits : i <= j]
                 IN IF f.isString
                    THEN toLowerCase(replaceLeadingAt(f.value))
                    ELSE <<>>
    ELSE IF cfg.telegram # 0 /\ contact.telegram # <<>>
         THEN toLowerCase(replaceLeadingAt(contact.telegram))
    ELSE <<>>

Result(id, url, firstName, lastName, error, found, telegram) ==
    [contactId |-> id, url |-> url, firstName |-> firstName,
     lastName |-> lastName, error |-> error, found |-> found,
     telegram |-> telegram]

\* error instanceof Error ? error.message : "Unknown error"
errorMessage(resp) == IF resp.isError THEN resp.message ELSE "Unknown error"

\* a catch that reports the failure with contactId -1
searchWithFilter_ErrorId(resp, cfg) ==
    IF resp.kind = "reject"
    THEN Result(-1, Absent, Absent, Absent, Some(errorMessage(resp)), FALSE, <<>>)
    ELSE IF Len(resp.contacts) > 0
         THEN LET contact == resp.contacts[1]
              IN Result(contact.id, Absent, Some(contact.name),
                        Some(contact.lastname), Absent, TRUE,
                        extractTelegramFromContact(contact, cfg))
    ELSE Result(0, Absent, Absent, Absent, Absent, FALSE, <<>>)

\* searchWithFilter, given what planfixRequest did
searchWithFilter(resp, cfg) ==
    IF resp.kind = "reject"
    THEN Result(0, Absent, Absent, Absent, Some(errorMessage(resp)), FALSE, <<>>)
    ELSE IF Len(resp.contacts) > 0
         THEN LET contact == resp.contacts[1]
              IN Result(contact.id, Absent, Some(contact.name),
                        Some(contact.lastname), Absent, TRUE,
                        extractTelegramFromContact(contact, cfg))
    ELSE Result(0, Absent, Absent, Absent, Absent, FALSE, <<>>)

\* the cross-check of the name stages: the match r is discarded
telegramMismatch(t, r) ==
    /\ t # <<>>
    /\ r.contactId > 0
    /\ r.telegram # <<>>
    /\ toLowerCase(replaceLeadingAt(t)) # r.telegram

\* the URL builder of the test double: one URL per id
getContactUrl(id) == <<"contact", id>>

\* a return with found: !!contactId
finalResult_TruthyFound(cid, res) ==
    LET id == IF Truthy(cid) THEN cid[1] ELSE 0
    IN Result(id, Some(getContactUrl(id)),
              IF res = Absent THEN Absent ELSE res[1].firstName,
              IF res = Absent THEN Absent ELSE res[1].lastName,
              Absent, id # 0, <<>>)

\* a return that passes on error: result?.error
finalResult_CarriesError(cid, res) ==
    LET id == IF Truthy(cid) THEN cid[1] ELSE 0
    IN Result(id, Some(getContactUrl(id)),
              IF res = Absent THEN Absent ELSE res[1].firstName,
              IF res = Absent THEN Absent ELSE res[1].lastName,
              IF res = Absent THEN Absent ELSE res[1].error, id > 0, <<>>)

\* the normal return of planfixSearchContact
finalResult(cid, res) ==
    LET id == IF Truthy(cid) THEN cid[1] ELSE 0
    IN Result(id, Some(getContactUrl(id)),
              IF res = Absent THEN Absent ELSE res[1].firstName,
              IF res = Absent THEN Absent ELSE res[1].lastName,
              Absent, id > 0, <<>>)

\* the return of the outer catch
catchResult(message) ==
    Result(0, Absent, Absent, Absent, Some(message), FALSE, <<>>)

-----------------------------------------------------------------------------
(* Inputs, configuration and what the collaborators can answer *)

Emails == {<<>>, <<"e", "@", "x">>}

\* absent, too short, starting with @, holding a foreign character, valid
Phones ==
    { <<>>,
      <<"7", "7", "7", "7">>,
      <<"@", "7", "7", "7", "7", "7">>,
      <<"7", "7", "x", "7", "7">>,
      <<"+", "7", " ", "(", "7", ")">> }

Names == {<<>>, <<"a", " ", "b">>, <<" ", "a">>}

NamesTranslated == {<<>>, <<"s", " ", "u">>}

Telegrams == {<<>>, <<"@", "A">>, <<"A", "b">>}

Inputs ==
    [name : Names, nameTranslated : NamesTranslated, phone : Phones,
     email : Emails, telegram : Telegrams]

\* PLANFIX_FIELD_IDS: built-in field only, custom field only, both, neither
Configs ==
    { [telegram |-> 131, telegramCustom |-> 0],
      [telegram |-> 0, telegramCustom |-> 7],
      [telegram |-> 131, telegramCustom |-> 7],
      [telegram |-> 0, telegramCustom |-> 0] }

\* the filters the extender can append, one list per length, not sorted by field
CustomFilter(f) == Filter(TypeTelegramCustom, Some(f), <<"v">>)

ExtenderOutputs ==
    { [i \in 1..n |-> CustomFilter(20 + n + 1 - i)] : n \in 0..MaxCustomFilters }

Contact(id, name, telegram, customFieldData) ==
    [id |-> id, name |-> name, lastname |-> "Doe", telegram |-> telegram,
     customFieldData |-> customFieldData]

CustomField(field, isString, value) ==
    [field |-> field, isString |-> isString, value |-> value]

\* the contacts the remote API can return: ids below, at and above 0; the
\* telegram nowhere, in the built-in attribute, or in the custom field 7
\* (first or second in the list, a string or not)
Contacts ==
    { Contact(-1, "Neg", <<>>, <<>>),
      Contact(0, "Zero", <<>>, <<>>),
      Contact(1, "John", <<>>, <<>>),
      Contact(1, "John", <<"@", "A">>, <<>>),
      Contact(1, "John", <<>>, <<CustomField(7, TRUE, <<"@", "A">>)>>),
      Contact(2, "Foo", <<"b">>, <<>>),
      Contact(2, "Foo", <<"@", "A">>,
              <<CustomField(8, TRUE, <<"a">>), CustomField(7, TRUE, <<"b">>)>>),
      Contact(2, "Foo", <<>>, <<CustomField(7, FALSE, <<>>)>>) }

\* what planfixRequest can do: reject with an Error, or resolve with no
\* contact or with contacts
Responses ==
    { [kind |-> "reject", isError |-> TRUE, message |-> "API fail", contacts |-> <<>>] }
    \cup { [kind |-> "resolve", isError |-> FALSE, message |-> "", contacts |-> cs]
             : cs \in {<<>>} \cup {<<c>> : c \in Contacts} }

NoCall == [stage |-> "none", kind |-> "none", id |-> 0, telegram |-> <<>>,
           name |-> ""]

Init ==
    /\ args \in Inputs
    /\ PLANFIX_FIELD_IDS \in Configs
    /\ extenderOut \in ExtenderOutputs
    /\ phone = args.phone
    /\ filters = Absent
    /\ customFilters = <<>>
    /\ contactId = Absent
    /\ result = Absent
    /\ cfIndex = 1
    /\ pc = "start"
    /\ outcome = "pending"
    /\ ret = Absent
    /\ calls = <<>>
    /\ last = NoCall
    /\ anyThrew = FALSE
    /\ allThrew = TRUE
    /\ accepted = 0

-----------------------------------------------------------------------------
(* The conditions of the cascade *)

emailStage(cid, a, f) == ~Truthy(cid) /\ a.email # <<>> /\ f.byEmail # Absent

phoneStage(cid, p, f) == ~Truthy(cid) /\ p # <<>> /\ f.byPhone # Absent

nameStage(cid, a, f) ==
    ~Truthy(cid) /\ a.name # <<>> /\ includesSpace(trim(a.name)) /\ f.byName # Absent

nameTranslatedStage(cid, a, f) ==
    /\ ~Truthy(cid)
    /\ a.nameTranslated # <<>>
    /\ includesSpace(trim(a.nameTranslated))
    /\ f.byNameTranslated # Absent

\* the condition of the telegram block
telegramStage(cid, a) == ~Truthy(cid) /\ a.telegram # <<>>

\* the guard of the 2nd to 5th telegram variant, inside the block
variantStage(cid, filter) == ~Truthy(cid) /\ filter # Absent

\* a loop without the break on a found contact
customStage_NoBreak(cid, cfs, i) == (i = 1 => ~Truthy(cid)) /\ i <= Len(cfs)

\* the loop over customFilters goes on
customStage(cid, cfs, i) == ~Truthy(cid) /\ i <= Len(cfs)

\* contactId and result after a stage without cross-check
stageOutcome(r) == [contactId |-> Some(r.contactId), result |-> Some(r)]

\* a name stage without the cross-check
nameStageOutcome_Unchecked(t, r) == stageOutcome(r)

\* contactId and result after a name stage: a mismatching match is discarded
nameStageOutcome(t, r) ==
    IF telegramMismatch(t, r)
    THEN [contactId |-> Absent, result |-> Absent]
    ELSE [contactId |-> Some(r.contactId), result |-> Some(r)]

\* the stages in the order of the code
Stages ==
    <<"email", "phone", "name", "nameTranslated", "byTelegram", "byTelegramWithAt",
      "byTelegramOriginalCase", "byTelegramOriginalCaseWithAt", "byTelegramUrl",
      "custom">>

Pos(stage) ==
    CASE stage = "email" -> 1
      [] stage = "phone" -> 2
      [] stage = "name" -> 3
      [] stage = "nameTranslated" -> 4
      [] stage = "byTelegram" -> 5
      [] stage = "byTelegramWithAt" -> 6
      [] stage = "byTelegramOriginalCase" -> 7
      [] stage = "byTelegramOriginalCaseWithAt" -> 8
      [] stage = "byTelegramUrl" -> 9
      [] stage = "custom" -> 10

TelegramVariants ==
    {"byTelegramWithAt", "byTelegramOriginalCase", "byTelegramOriginalCaseWithAt",
     "byTelegramUrl"}

\* the filter a stage sends
FilterOf(stage) ==
    CASE stage = "email" -> filters[1].byEmail
      [] stage = "phone" -> filters[1].byPhone
      [] stage = "name" -> filters[1].byName
      [] stage = "nameTranslated" -> filters[1].byNameTranslated
      [] stage = "byTelegram" -> filters[1].byTelegram
      [] stage = "byTelegramWithAt" -> filters[1].byTelegramWithAt
      [] stage = "byTelegramOriginalCase" -> filters[1].byTelegramOriginalCase
      [] stage = "byTelegramOriginalCaseWithAt" ->
             filters[1].byTelegramOriginalCaseWithAt
      [] stage = "byTelegramUrl" -> filters[1].byTelegramUrl
      [] stage = "custom" ->
             IF cfIndex <= Len(customFilters)
             THEN Some(customFilters[cfIndex]) ELSE Absent

\* whether control, standing before stage `from`, issues the call of `stage`
\* when it gets there: a telegram variant is reached from outside the block
\* only through the block's own condition
Condition(stage, from) ==
    CASE stage = "email" -> emailStage(contactId, args, filters[1])
      [] stage = "phone" -> phoneStage(contactId, phone, filters[1])
      [] stage = "name" -> nameStage(contactId, args, filters[1])
      [] stage = "nameTranslated" -> nameTranslatedStage(contactId, args, filters[1])
      [] stage = "byTelegram" ->
             telegramStage(contactId, args) /\ filters[1].byTelegram # Absent
      [] stage \in TelegramVariants ->
             /\ Pos(from) <= Pos("byTelegram") => telegramStage(contactId, args)
             /\ variantStage(contactId, FilterOf(stage))
      [] stage = "custom" -> customStage(contactId, customFilters, cfIndex)

Running == pc \notin {"start", "done"}

\* the code between two awaits runs without interruption: standing before
\* stage pc, control passes the stages whose condition fails and stops at the
\* first whose condition holds, or reaches the return statement (0)
NextCall ==
    LET open == {i \in Pos(pc)..Len(Stages) : Condition(Stages[i], pc)}
    IN IF open = {} THEN 0 ELSE CHOOSE i \in open : \A j \in open : i <= j

Reaches(stage) == Running /\ NextCall = Pos(stage)

ReachesReturn == Running /\ NextCall = 0

-----------------------------------------------------------------------------
(* Actions *)

\* one remote call: the request is issued, planfixRequest answers with resp,
\* and the stage assigns result and contactId from out
Search(stage, filter, resp, out) ==
    LET r == searchWithFilter(resp, PLANFIX_FIELD_IDS)
        n == Len(calls) + 1
    IN /\ calls' = Append(calls, [stage |-> stage, index |-> cfIndex, filter |-> filter])
       /\ last' = [stage |-> stage,
                   kind |-> IF resp.kind = "reject" THEN "reject"
                            ELSE IF r.found THEN "contact" ELSE "empty",
                   id |-> r.contactId,
                   telegram |-> r.telegram,
                   name |-> IF r.firstName = Absent THEN "" ELSE r.firstName[1]]
       /\ anyThrew' = (anyThrew \/ resp.kind = "reject")
       /\ allThrew' = (allThrew /\ resp.kind = "reject")
       /\ accepted' = IF accepted = 0 /\ Truthy(out.contactId) THEN n ELSE accepted
       /\ contactId' = out.contactId
       /\ result' = out.result

Frame == UNCHANGED <<args, PLANFIX_FIELD_IDS, extenderOut, phone, filters,
                     customFilters, outcome, ret>>

\* a stage other than a name stage: the call, then result and contactId
Stage(stage, next) ==
    /\ \E resp \in Responses :
          Search(stage, FilterOf(stage)[1], resp,
                 stageOutcome(searchWithFilter(resp, PLANFIX_FIELD_IDS)))
    /\ pc' = next
    /\ UNCHANGED cfIndex
    /\ Frame

\* a name stage: the call, then the telegram cross-check
CheckedStage(stage, next) ==
    /\ \E resp \in Responses :
          Search(stage, FilterOf(stage)[1], resp,
                 nameStageOutcome(args.telegram,
                                  searchWithFilter(resp, PLANFIX_FIELD_IDS)))
    /\ pc' = next
    /\ UNCHANGED cfIndex
    /\ Frame

\* lines 40-174 when the extender returns: sanitation, the filters, the extender
Prepare ==
    /\ pc = "start"
    /\ phone' = sanitizePhone(args.phone)
    /\ filters' = Some(buildFilters(args, sanitizePhone(args.phone), PLANFIX_FIELD_IDS))
    /\ customFilters' = customFilters \o extenderOut
    /\ pc' = "email"
    /\ UNCHANGED <<args, PLANFIX_FIELD_IDS, extenderOut, contactId, result, cfIndex,
                   outcome, ret, calls, last, anyThrew, allThrew, accepted>>

\* lines 40-174 when the extender throws: nothing catches it
ExtenderThrows ==
    /\ pc = "start"
    /\ phone' = sanitizePhone(args.phone)
    /\ filters' = Some(buildFilters(args, sanitizePhone(args.phone), PLANFIX_FIELD_IDS))
    /\ pc' = "done"
    /\ outcome' = "thrown"
    /\ UNCHANGED <<args, PLANFIX_FIELD_IDS, extenderOut, customFilters, contactId,
                   result, cfIndex, ret, calls, last, anyThrew, allThrew, accepted>>

ByEmail ==
    /\ Reaches("email")
    /\ Stage("email", "phone")

ByPhone ==
    /\ Reaches("phone")
    /\ Stage("phone", "name")

ByName ==
    /\ Reaches("name")
    /\ CheckedStage("name", "nameTranslated")

ByNameTranslated ==
    /\ Reaches("nameTranslated")
    /\ CheckedStage("nameTranslated", "byTelegram")

ByTelegram ==
    /\ Reaches("byTelegram")
    /\ Stage("byTelegram", "byTelegramWithAt")

ByTelegramWithAt ==
    /\ Reaches("byTelegramWithAt")
    /\ Stage("byTelegramWithAt", "byTelegramOriginalCase")

ByTelegramOriginalCase ==
    /\ Reaches("byTelegramOriginalCase")
    /\ Stage("byTelegramOriginalCase", "byTelegramOriginalCaseWithAt")

ByTelegramOriginalCaseWithAt ==
    /\ Reaches("byTelegramOriginalCaseWithAt")
    /\ Stage("byTelegramOriginalCaseWithAt", "byTelegramUrl")

ByTelegramUrl ==
    /\ Reaches("byTelegramUrl")
    /\ Stage("byTelegramUrl", "custom")

\* one iteration of the loop over customFilters
ByCustomFilter ==
    /\ Reaches("custom")
    /\ \E resp \in Responses :
          Search("custom", customFilters[cfIndex], resp,
                 stageOutcome(searchWithFilter(resp, PLANFIX_FIELD_IDS)))
    /\ cfIndex' = cfIndex + 1
    /\ pc' = "custom"
    /\ Frame

\* lines 308-318: the URL builder returns and the result object is returned
Return ==
    /\ ReachesReturn
    /\ contactId' = Some(IF Truthy(contactId) THEN contactId[1] ELSE 0)
    /\ ret' = Some(finalResult(contactId, result))
    /\ outcome' = "returned"
    /\ pc' = "done"
    /\ UNCHANGED <<args, PLANFIX_FIELD_IDS, extenderOut, phone, filters,
                   customFilters, result, cfIndex, calls, last, anyThrew,
                   allThrew, accepted>>

\* lines 308-309 and 319-328: the URL builder throws, the outer catch returns
UrlBuilderThrows ==
    /\ ReachesReturn
    /\ contactId' = Some(IF Truthy(contactId) THEN contactId[1] ELSE 0)
    /\ ret' = Some(catchResult("URL fail"))
    /\ outcome' = "returned"
    /\ pc' = "done"
    /\ UNCHANGED <<args, PLANFIX_FIELD_IDS, extenderOut, phone, filters,
                   customFilters, result, cfIndex, calls, last, anyThrew,
                   allThrew, accepted>>

\* the collaborators honour their contracts: only the remote client fails
Next ==
    \/ Prepare
    \/ ByEmail
    \/ ByPhone
    \/ ByName
    \/ ByNameTranslated
    \/ ByTelegram
    \/ ByTelegramWithAt
    \/ ByTelegramOriginalCase
    \/ ByTelegramOriginalCaseWithAt
    \/ ByTelegramUrl
    \/ ByCustomFilter
    \/ Return

Spec == Init /\ [][Next]_vars

\* every behaviour of the collaborators: the extender and the URL builder may throw
NextAny ==
    \/ Next
    \/ ExtenderThrows
    \/ UrlBuilderThrows

SpecAny == Init /\ [][NextAny]_vars

-----------------------------------------------------------------------------
(* Vocabulary of the properties *)

Done == pc = "done"

Returned == outcome = "returned"

\* a telegram field is configured
TelegramConfigured ==
    PLANFIX_FIELD_IDS.telegramCustom # 0 \/ PLANFIX_FIELD_IDS.telegram # 0

\* strip one leading @, then lowercase
Normalized(t) == toLowerCase(replaceLeadingAt(t))

\* a phone value the phone filter must never carry
PhoneInvalid(p) ==
    \/ startsWithAt(p)
    \/ Len(p) < MinPhoneLen
    \/ \E i \in 1..Len(p) : p[i] \notin PhoneClass

HasInnerSpace(s) == includesSpace(trim(s))

\* whether a stage applies to the input at all; i is the position in the
\* extender's list for the custom stage
Applicable(stage, i) ==
    CASE stage = "email" -> args.email # <<>>
      [] stage = "phone" -> args.phone # <<>> /\ ~PhoneInvalid(args.phone)
      [] stage = "name" -> args.name # <<>> /\ HasInnerSpace(args.name)
      [] stage = "nameTranslated" ->
             args.nameTranslated # <<>> /\ HasInnerSpace(args.nameTranslated)
      [] stage = "custom" -> i <= Len(extenderOut)
      [] OTHER -> args.telegram # <<>> /\ TelegramConfigured

\* the order of the cascade on calls: by stage, then by position in the list
Before(c, d) ==
    \/ Pos(c.stage) < Pos(d.stage)
    \/ c.stage = d.stage /\ c.index < d.index

StageSlots ==
    {[stage |-> Stages[k], index |-> 1] : k \in 1..(Len(Stages) - 1)}
    \cup {[stage |-> "custom", index |-> i] : i \in 1..Len(extenderOut)}

Called(slot) ==
    \E k \in 1..Len(calls) :
        calls[k].stage = slot.stage /\ calls[k].index = slot.index

\* the cascade was stopped by a truthy contactId before it came to slot
StoppedBefore(slot) == accepted > 0 /\ Before(calls[accepted], slot)

\* every applicable stage was attempted, up to the stage that stopped the cascade
CascadeComplete ==
    \A slot \in StageSlots :
        Applicable(slot.stage, slot.index) => Called(slot) \/ StoppedBefore(slot)

\* the remote calls with a telegram filter, in the order issued
TelegramCalls ==
    SelectSeq(calls, LAMBDA c : Pos(c.stage) \in Pos("byTelegram")..Pos("byTelegramUrl"))

\* the latest call was a name stage and control has not moved past it
AfterNameStage ==
    /\ Running
    /\ \/ last.stage = "name" /\ pc = "nameTranslated"
       \/ last.stage = "nameTranslated" /\ pc = "byTelegram"

-----------------------------------------------------------------------------
(* Properties *)

\* C1: for every input and every behaviour of the collaborators,
\* planfixSearchContact never throws to its caller: it ends by returning a
\* result object with a numeric contactId and a boolean found.
NeverThrows ==
    Done => /\ Returned
            /\ ret # Absent
            /\ ret[1].contactId \in Int
            /\ ret[1].found \in BOOLEAN

\* C2: in every returned result, on the normal path and on the outer-catch
\* path, for any contact id of the remote API, found is true exactly when
\* contactId > 0.
FoundIffPositive ==
    ret # Absent => (ret[1].found <=> ret[1].contactId > 0)

\* C2 witness: the remote API returned a contact with a negative id and the
\* normal path returned that id.
NegativeIdReturned ==
    /\ Done /\ Returned
    /\ last.kind = "contact" /\ last.id < 0
    /\ ret[1].contactId = last.id
    /\ ret[1].error = Absent

\* C3: the remote calls are issued in the fixed stage order (the custom
\* filters in the extender's order), only for applicable stages, none after a
\* stage has set a contactId that stops the cascade; an email match results
\* in exactly one remote call.
OrderedShortCircuit ==
    /\ \A i, j \in 1..Len(calls) : i < j => Before(calls[i], calls[j])
    /\ \A i \in 1..Len(calls) : Applicable(calls[i].stage, calls[i].index)
    /\ \A i \in 1..Len(calls) :
          calls[i].stage = "custom" => calls[i].filter = extenderOut[calls[i].index]
    /\ accepted > 0 => accepted = Len(calls)
    /\ (calls # <<>> /\ calls[1].stage = "email" /\ accepted = 1) => Len(calls) = 1
    /\ Done /\ Returned => CascadeComplete

\* C3 witness: an email match ended a cascade whose later stages applied.
EmailMatchOneCall ==
    /\ Done /\ Returned
    /\ Len(calls) = 1 /\ calls[1].stage = "email"
    /\ accepted = 1 /\ last.id > 0
    /\ Applicable("phone", 1) /\ Applicable("byTelegram", 1)
    /\ Applicable("custom", 2)

\* C4: a remote call that throws does not propagate and does not abort the
\* cascade: the later applicable stages are still attempted, and when a later
\* stage finds a contact the final result has its id with found = true.
ThrowDoesNotAbort ==
    /\ anyThrew => outcome # "thrown"
    /\ (Running /\ last.kind = "reject") => ~Truthy(contactId)
    /\ (Done /\ Returned /\ anyThrew) => CascadeComplete
    /\ (Done /\ Returned /\ anyThrew /\ accepted = Len(calls) /\ last.id > 0)
          => (ret[1].contactId = last.id /\ ret[1].found)

\* C4 witness: the first call threw, a later stage found contact 2.
FoundAfterThrow ==
    /\ Done /\ Returned
    /\ anyThrew /\ Len(calls) >= 3 /\ accepted = Len(calls)
    /\ last.id = 2 /\ ret[1].contactId = 2 /\ ret[1].found

\* C5: when the remote call rejects for every filter attempted, the result is
\* contactId = 0, found = false, error unset.
AllRejectedNoError ==
    (Done /\ Returned /\ calls # <<>> /\ allThrew)
        => /\ ret[1].contactId = 0
           /\ ret[1].found = FALSE
           /\ ret[1].error = Absent

\* C5 witness: the tested case, the email filter alone, rejected.
OnlyEmailRejected ==
    /\ Done /\ Returned
    /\ Len(calls) = 1 /\ calls[1].stage = "email" /\ allThrew
    /\ ret[1].contactId = 0

\* the latest call returned a contact whose extracted telegram (empty when it
\* has none) differs from the supplied telegram, both normalized
TelegramDisagrees ==
    /\ last.kind = "contact"
    /\ args.telegram # <<>>
    /\ last.telegram # Normalized(args.telegram)

\* the latest match was discarded and the cascade goes on
MatchRejected == result = Absent /\ ~Truthy(contactId)

\* C6 as stated: a name or translated-name match whose extracted telegram
\* (empty when the contact has none) differs from the supplied one is
\* rejected and the cascade continues.
NameMatchRejectedOnAnyMismatch ==
    (AfterNameStage /\ TelegramDisagrees) => MatchRejected

\* C6 amended: a name or translated-name match with a positive id whose
\* extracted telegram is not empty and differs from the supplied one is
\* rejected and the cascade continues; once the call returns, neither
\* contactId nor result holds that contact.
NameMatchRejectedOnMismatch ==
    (AfterNameStage /\ TelegramDisagrees /\ last.id > 0 /\ last.telegram # <<>>)
        => MatchRejected

\* C6 witness: contact 2 with telegram b was found by name for telegram @A
\* and discarded.
NameMatchDiscarded ==
    /\ AfterNameStage /\ last.stage = "name"
    /\ last.id = 2 /\ last.telegram = <<"b">>
    /\ args.telegram = <<"@", "A">>
    /\ contactId = Absent /\ result = Absent

\* the five filter values of handle t, in the words of the specification
ExpectedTelegramValues(t) ==
    << toLowerCase(replaceLeadingAt(t)),
       <<"@">> \o toLowerCase(replaceLeadingAt(t)),
       replaceLeadingAt(t),
       IF startsWithAt(t) THEN t ELSE <<"@">> \o t,
       UrlPrefix \o replaceLeadingAt(t) >>

\* C7: with a telegram field configured, a handle supplied and no match at
\* any stage up to the last telegram variant, exactly 5 telegram calls were
\* made, with the values lowercase-no-@, lowercase-with-@, original-no-@,
\* original-with-@, URL form with the case preserved.
FiveTelegramVariants ==
    ( /\ TelegramConfigured
      /\ args.telegram # <<>>
      /\ accepted = 0
      /\ pc \in {"custom", "done"}
      /\ outcome # "thrown" )
        => /\ Len(TelegramCalls) = 5
           /\ \A k \in 1..5 :
                 TelegramCalls[k].filter.value = ExpectedTelegramValues(args.telegram)[k]

\* C7 witness: handle @A, custom field 7, five telegram calls and no match.
FiveVariantsTried ==
    /\ Done /\ Returned
    /\ args.telegram = <<"@", "A">>
    /\ PLANFIX_FIELD_IDS.telegramCustom = 7
    /\ accepted = 0
    /\ Len(TelegramCalls) = 5
    /\ TelegramCalls[5].filter.value = UrlPrefix \o <<"A">>

\* C8: an invalid phone value is never sent as a phone filter, raises no
\* error, and the cascade proceeds with the other applicable stages.
InvalidPhoneNeverSent ==
    PhoneInvalid(args.phone)
        => /\ \A k \in 1..Len(calls) : calls[k].filter.type # TypeByPhone
           /\ outcome # "thrown"
           /\ (Done /\ Returned) => CascadeComplete

\* C8 witness: the tested case, phone "@..." with a telegram handle: the
\* first call is the first telegram variant.
InvalidPhoneSkipped ==
    /\ Done /\ Returned
    /\ startsWithAt(args.phone)
    /\ calls # <<>> /\ calls[1].stage = "byTelegram"
    /\ last.id > 0 /\ ret[1].found

\* C9 as stated: the error of a failed remote call is hidden when some
\* attempted stage completes without failing, and surfaced in the error
\* field when every attempted stage fails.
ErrorSurfacedWhenAllFail ==
    (Done /\ Returned /\ anyThrew)
        => IF allThrew THEN ret[1].error # Absent ELSE ret[1].error = Absent

\* C9 amended: the error of a failed remote call is never surfaced on the
\* normal return path: the error field is unset whether some or every
\* attempted stage failed.
RemoteErrorNeverSurfaced ==
    (Done /\ Returned /\ anyThrew) => ret[1].error = Absent

\* C9 witness: two calls, the first failed, the second did not; and the
\* result has no error.
MixedFailuresReturned ==
    /\ Done /\ Returned
    /\ Len(calls) = 2 /\ anyThrew /\ ~allThrew
    /\ ret[1].error = Absent

\* C10: a final result with found = false carries no firstName and no
\* lastName of any contact.
NotFoundCarriesNoNames ==
    (ret # Absent /\ ~ret[1].found)
        => (ret[1].firstName = Absent /\ ret[1].lastName = Absent)

====
